---- MODULE Spec2Model ----
(***************************************************************************)
(* Governance core of the ArmorIQ simulator: the intent-token check of the *)
(* MCP server (backend/mcp/main.py), the mock token authority              *)
(* (backend/armoriq/client.py), the policy engine                          *)
(* (backend/policy/engine.py), the REST restart endpoint (mcp/infra.py)    *)
(* and the plan loops (backend/orchestrator/runner.py,                     *)
(* backend/agent/server.py).                                               *)
(*                                                                         *)
(* Python values are modelled as follows: a dict is a function whose       *)
(* DOMAIN is its key set, a list is a sequence, None is the string "None", *)
(* an HTTP exchange is a request record that is received, handled in one   *)
(* step and answered.  Time is the number of seconds on one clock.         *)
(***************************************************************************)
EXTENDS Integers, Sequences, FiniteSets, TLC

VARIABLES
    USED_TOKENS,      \* mcp/main.py: set of jti already presented
    services,         \* system/state.py: service id -> status
    audit_log,        \* system/state.py: security["audit_log"]
    RESTART_HISTORY,  \* policy/engine.py: (username, service_id) -> timestamps
    now,              \* the wall clock, in seconds
    req,              \* the call being served (HTTP request or policy call)
    resp,             \* its result, until it is delivered
    accepted,         \* jti of every token that passed verify_armoriq_token
    presented,        \* jti of every token that passed jwt.decode with a jti
    failed,           \* jti of every request whose handler raised
    consumeLog,       \* (username, service_id) -> times of every consume
    plan,             \* the plan handed to the gateway
    captured_plan,    \* what capture_plan returned
    allowed_actions,  \* get_intent_token's list of bound actions
    intent_token,     \* what get_intent_token returned or raised
    gw_pc,            \* where the capture-and-mint flow stands
    runner,           \* the orchestration function that is executing a plan
    step_no,          \* index of the plan step its loop is at
    results,          \* its list of step results
    run_status,       \* "running", or the status it returned
    thr,              \* worker thread -> the call it runs and where it is
    passCount,        \* jti -> requests that passed verify_armoriq_token
    tools,            \* registry._tools: tool name -> handler function
    definitions,      \* registry._definitions: tool name -> its parameters
    alerts,           \* state.alerts: alert id -> the alert
    resolves          \* alert id -> user_email of every successful resolve

vars == <<USED_TOKENS, services, audit_log, RESTART_HISTORY, now, req, resp,
          accepted, presented, failed, consumeLog, plan, captured_plan,
          allowed_actions, intent_token, gw_pc, runner, step_no, results,
          run_status, thr, passCount, tools, definitions, alerts, resolves>>

tokenVars == <<USED_TOKENS, services, audit_log, accepted, presented, failed>>
policyVars == <<RESTART_HISTORY, consumeLog>>
gatewayVars == <<plan, captured_plan, allowed_actions, intent_token, gw_pc>>
runVars == <<runner, step_no, results, run_status>>
raceVars == <<thr, passCount>>
registryVars == <<tools, definitions>>
alertVars == <<alerts, resolves>>

----------------------------------------------------------------------------
(* Bounds of the model *)

MaxNow == 3601
MaxSteps == 2
MaxConsumes == 2

(* Program constants *)

RATE_WINDOW == 3600
JUNIOR_LIMIT == 1
TOKEN_TTL == 600

None == "None"
NoCall == [op |-> "none"]

ARMORIQ_SECRET == "demo-secret-key-12345"

\* The instants the clock is observed at: each multiple of the rate window
\* and the second after it.
Times == {t \in 0..MaxNow : t % RATE_WINDOW \in {0, 1}}

----------------------------------------------------------------------------
(* Python dict helpers *)

EmptyDict == <<>>

Get(d, k) == IF k \in DOMAIN d THEN d[k] ELSE None

Truthy(v) == v # None /\ v # ""

----------------------------------------------------------------------------
(* Input domains *)

P_auth == [k \in {"service_id"} |-> "auth"]
P_db == [k \in {"service_id"} |-> "db"]
P_auth_by == [k \in {"service_id", "user_email"} |->
                IF k = "service_id" THEN "auth" ELSE "admin_agent"]

P_null == [k \in {"service_id"} |-> None]
P_ghost_by == [k \in {"service_id", "user_email"} |->
                 IF k = "service_id" THEN "ghost" ELSE "admin_agent"]

ParamPool == {EmptyDict, P_auth, P_db, P_auth_by, P_null, P_ghost_by}

ToolPool == {"infra.restart", "infra.list"}

PlanStep(a, p) == [action |-> a, params |-> p]

S_auth == PlanStep("infra.restart", P_auth)
S_db == PlanStep("infra.restart", P_db)
S_auth_by == PlanStep("infra.restart", P_auth_by)
S_list == PlanStep("infra.list", EmptyDict)
S_null == PlanStep("infra.restart", P_null)
S_ghost_by == PlanStep("infra.restart", P_ghost_by)

ActionLists ==
    {<<>>, <<S_auth>>, <<S_db, S_auth>>, <<S_auth_by>>, <<S_list>>, <<S_null>>,
     <<S_ghost_by>>}

Subjects == {"admin_agent", "mallory"}
Emails == {None, "admin_agent", "mallory"}
JTIs == {"j1", "j2"}

NoToken == [kind |-> "none"]
EmptyToken == [kind |-> "empty"]
OpaqueToken == [kind |-> "opaque"]

Jwt(sig, exp, jti, sub, actions) ==
    [kind |-> "jwt", sig |-> sig, exp |-> exp, jti |-> jti, sub |-> sub,
     actions |-> actions]

\* Tokens a client can send: the empty string, a string that is no JWT, and
\* JWTs signed with the server's secret or with another one.
TokenPool ==
    {EmptyToken, OpaqueToken}
    \cup {Jwt(ARMORIQ_SECRET, RATE_WINDOW, j, s, l) :
            j \in JTIs \cup {None}, s \in Subjects, l \in ActionLists}
    \cup {Jwt("wrong-secret", RATE_WINDOW, "j1", "admin_agent", l) :
            l \in ActionLists}

ExecuteRequests ==
    {[op |-> "execute", intent_token |-> t, tool_name |-> n,
      parameters |-> p, user_email |-> e] :
        t \in TokenPool, n \in ToolPool, p \in ParamPool, e \in Emails}

----------------------------------------------------------------------------
(* jose.jwt.decode as used by verify_armoriq_token: the signature is checked *)
(* first, then the exp claim (expired when exp < now).                        *)

\* faulty variant: any JWT passes the signature check
SignatureOK_Any(tok) == tok.kind = "jwt"

SignatureOK(tok) == tok.kind = "jwt" /\ tok.sig = ARMORIQ_SECRET

\* faulty variant: the exp claim is not checked
Expired_Never(tok, t) == FALSE

Expired(tok, t) == tok.exp < t

DecodeOK(tok, t) == SignatureOK(tok) /\ ~Expired(tok, t)

\* faulty variant: only the action name is bound
ParamsMatch_NameOnly(allowed_params, parameters) == TRUE

(* The parameter check of one bound entry *)
ParamsMatch(allowed_params, parameters) ==
    \A k \in DOMAIN allowed_params : Get(parameters, k) = allowed_params[k]

(* The scan of the token's bound actions, from entry i on *)
RECURSIVE ScanActions(_, _, _, _)
ScanActions(allowed, i, tool_name, parameters) ==
    IF i > Len(allowed) THEN FALSE
    ELSE IF allowed[i].action = tool_name
            /\ ParamsMatch(allowed[i].params, parameters)
         THEN TRUE
         ELSE ScanActions(allowed, i + 1, tool_name, parameters)

IsAuthorized(tok, tool_name, parameters) ==
    ScanActions(tok.actions, 1, tool_name, parameters)

\* faulty variant: the caller identity is not compared with the subject
SubjectOK_Skipped(tok, user_email) == TRUE

\* faulty variant: a request without caller identity fails the subject check
SubjectOK_Required(tok, user_email) == tok.sub = user_email

SubjectOK(tok, user_email) == ~(Truthy(user_email) /\ tok.sub # user_email)

\* faulty variant: the jti is never looked up in the used-token set
verify_NoReplayCheck(tok, tool_name, parameters, user_email, used, t) ==
    IF ~DecodeOK(tok, t)
    THEN [ok |-> FALSE, why |-> "jwt", used |-> used]
    ELSE IF ~Truthy(tok.jti)
    THEN [ok |-> FALSE, why |-> "reuse", used |-> used]
    ELSE IF ~SubjectOK(tok, user_email)
    THEN [ok |-> FALSE, why |-> "user", used |-> used \cup {tok.jti}]
    ELSE IF ~IsAuthorized(tok, tool_name, parameters)
    THEN [ok |-> FALSE, why |-> "action", used |-> used \cup {tok.jti}]
    ELSE [ok |-> TRUE, why |-> "ok", used |-> used \cup {tok.jti}]

\* faulty variant: the jti is marked used only once every check has passed
verify_BurnOnSuccess(tok, tool_name, parameters, user_email, used, t) ==
    IF ~DecodeOK(tok, t)
    THEN [ok |-> FALSE, why |-> "jwt", used |-> used]
    ELSE IF ~Truthy(tok.jti) \/ tok.jti \in used
    THEN [ok |-> FALSE, why |-> "reuse", used |-> used]
    ELSE IF ~SubjectOK(tok, user_email)
    THEN [ok |-> FALSE, why |-> "user", used |-> used]
    ELSE IF ~IsAuthorized(tok, tool_name, parameters)
    THEN [ok |-> FALSE, why |-> "action", used |-> used]
    ELSE [ok |-> TRUE, why |-> "ok", used |-> used \cup {tok.jti}]

\* faulty variant: a used token is still good for the actions it binds
verify_PerActionUse(tok, tool_name, parameters, user_email, used, t) ==
    IF ~DecodeOK(tok, t)
    THEN [ok |-> FALSE, why |-> "jwt", used |-> used]
    ELSE IF \/ ~Truthy(tok.jti)
            \/ tok.jti \in used /\ ~IsAuthorized(tok, tool_name, parameters)
    THEN [ok |-> FALSE, why |-> "reuse", used |-> used]
    ELSE IF ~SubjectOK(tok, user_email)
    THEN [ok |-> FALSE, why |-> "user", used |-> used \cup {tok.jti}]
    ELSE IF ~IsAuthorized(tok, tool_name, parameters)
    THEN [ok |-> FALSE, why |-> "action", used |-> used \cup {tok.jti}]
    ELSE [ok |-> TRUE, why |-> "ok", used |-> used \cup {tok.jti}]

\* faulty variant: a rejected replay releases the token id
verify_ReleaseOnReplay(tok, tool_name, parameters, user_email, used, t) ==
    IF ~DecodeOK(tok, t)
    THEN [ok |-> FALSE, why |-> "jwt", used |-> used]
    ELSE IF ~Truthy(tok.jti) \/ tok.jti \in used
    THEN [ok |-> FALSE, why |-> "reuse", used |-> used \ {tok.jti}]
    ELSE IF ~SubjectOK(tok, user_email)
    THEN [ok |-> FALSE, why |-> "user", used |-> used \cup {tok.jti}]
    ELSE IF ~IsAuthorized(tok, tool_name, parameters)
    THEN [ok |-> FALSE, why |-> "action", used |-> used \cup {tok.jti}]
    ELSE [ok |-> TRUE, why |-> "ok", used |-> used \cup {tok.jti}]

(* verify_armoriq_token: its return value, the log line it wrote and the *)
(* used-token set it leaves behind.                                       *)
verify_armoriq_token(tok, tool_name, parameters, user_email, used, t) ==
    IF ~DecodeOK(tok, t)
    THEN [ok |-> FALSE, why |-> "jwt", used |-> used]
    ELSE IF ~Truthy(tok.jti) \/ tok.jti \in used
    THEN [ok |-> FALSE, why |-> "reuse", used |-> used]
    ELSE IF ~SubjectOK(tok, user_email)
    THEN [ok |-> FALSE, why |-> "user", used |-> used \cup {tok.jti}]
    ELSE IF ~IsAuthorized(tok, tool_name, parameters)
    THEN [ok |-> FALSE, why |-> "action", used |-> used \cup {tok.jti}]
    ELSE [ok |-> TRUE, why |-> "ok", used |-> used \cup {tok.jti}]

----------------------------------------------------------------------------
(* The answers of execute_tool *)

\* faulty variant: a rejected token is answered without a detail
HTTPDetail_Silent(status) ==
    IF status = 200 THEN "success"
    ELSE IF status = 401 THEN "Missing ArmorIQ Intent Token"
    ELSE IF status = 403 THEN ""
    ELSE IF status = 404 THEN "Tool not found"
    ELSE IF status = 400 THEN "Service not found"
    ELSE "Internal Server Error during execution"

\* the detail of the HTTPException raised, or the status field of the body
\* returned
HTTPDetail(status) ==
    IF status = 200 THEN "success"
    ELSE IF status = 401 THEN "Missing ArmorIQ Intent Token"
    ELSE IF status = 403 THEN "Invalid or unauthorized ArmorIQ Intent Token"
    ELSE IF status = 404 THEN "Tool not found"
    ELSE IF status = 400 THEN "Service not found"
    ELSE "Internal Server Error during execution"

\* why is the line verify_armoriq_token logged; it is not sent
Response(status, why, ran, t) ==
    [status |-> status, why |-> why, ran |-> ran, at |-> t,
     detail |-> HTTPDetail(status)]

\* the warning or error verify_armoriq_token writes to the server's log
\* before it returns False
LogLine(why) ==
    IF why = "jwt" THEN "JWT Verification failed"
    ELSE IF why = "reuse" THEN "Token reuse or missing JTI"
    ELSE IF why = "user" THEN "User mismatch"
    ELSE IF why = "action" THEN "Action not authorized in token"
    ELSE ""

----------------------------------------------------------------------------
(* The tool registry and the handlers registered by mcp/infra.py *)

RegisteredTools == {"infra.list", "infra.restart"}

\* faulty variant: an unknown name falls back to the first tool
get_tool_Fallback(name) ==
    IF name \in DOMAIN tools THEN tools[name] ELSE "list_services"

\* self._tools.get(name)
get_tool(name) == IF name \in DOMAIN tools THEN tools[name] ELSE None

\* the function each registration of mcp/infra.py decorates
InfraHandler(name) ==
    IF name = "infra.list" THEN "list_services"
    ELSE IF name = "infra.restart" THEN "restart_service"
    ELSE IF name = "infra.scale" THEN "scale_service"
    ELSE "shutdown_service"

\* The keyword parameters of each handler: tool_func(**parameters) raises
\* TypeError unless the keys given are exactly the ones it declares.
HandlerArgs(name) ==
    IF name = "infra.restart" THEN {"service_id", "user_email"} ELSE {}

\* The parameters each tool's definition declares required
RequiredParams(name) ==
    IF name = "infra.restart" THEN {"service_id", "user_email"} ELSE {}

ServiceIds == {"auth", "payments", "db"}

\* faulty variant: an error raised by the handler is answered with nothing
CallHandler_Unanswered(name, parameters, svc, audit) ==
    IF DOMAIN parameters # HandlerArgs(name)
    THEN [status |-> 0, services |-> svc, audit_log |-> audit]
    ELSE IF name = "infra.list"
    THEN [status |-> 200, services |-> svc, audit_log |-> audit]
    ELSE IF parameters["service_id"] \notin DOMAIN svc
    THEN [status |-> 0, services |-> svc, audit_log |-> audit]
    ELSE [status |-> 200,
          services |-> [svc EXCEPT ![parameters["service_id"]] = "running"],
          audit_log |-> Append(audit,
                               [action |-> "infra.restart",
                                target |-> parameters["service_id"],
                                by |-> parameters["user_email"]])]

\* faulty variant: user_email has a default, as in resolve_alert
CallHandler_DefaultEmail(name, parameters, svc, audit) ==
    IF name = "infra.list"
    THEN IF DOMAIN parameters # {}
         THEN [status |-> 500, services |-> svc, audit_log |-> audit]
         ELSE [status |-> 200, services |-> svc, audit_log |-> audit]
    ELSE IF ~(/\ "service_id" \in DOMAIN parameters
              /\ DOMAIN parameters \subseteq HandlerArgs(name))
    THEN [status |-> 500, services |-> svc, audit_log |-> audit]
    ELSE IF parameters["service_id"] \notin DOMAIN svc
    THEN [status |-> 400, services |-> svc, audit_log |-> audit]
    ELSE [status |-> 200,
          services |-> [svc EXCEPT ![parameters["service_id"]] = "running"],
          audit_log |-> Append(audit,
                               [action |-> "infra.restart",
                                target |-> parameters["service_id"],
                                by |-> Get(parameters, "user_email")])]

\* The outcome of tool_func(**parameters): the HTTP status execute_tool
\* answers with, the services and the audit log afterwards.
CallHandler(name, parameters, svc, audit) ==
    IF DOMAIN parameters # HandlerArgs(name)
    THEN [status |-> 500, services |-> svc, audit_log |-> audit]
    ELSE IF name = "infra.list"
    THEN [status |-> 200, services |-> svc, audit_log |-> audit]
    ELSE IF parameters["service_id"] \notin DOMAIN svc
    THEN [status |-> 400, services |-> svc, audit_log |-> audit]
    ELSE [status |-> 200,
          services |-> [svc EXCEPT ![parameters["service_id"]] = "running"],
          audit_log |-> Append(audit,
                               [action |-> "infra.restart",
                                target |-> parameters["service_id"],
                                by |-> parameters["user_email"]])]

----------------------------------------------------------------------------
(* policy/engine.py *)

ActorDict(username, roles) ==
    [kind |-> "dict", username |-> username, roles |-> roles]
ActorStr(name) == [kind |-> "str", name |-> name]

\* allow and consume_quota normalise the actor the same way
ActorUsername(actor) ==
    IF actor.kind = "str" THEN actor.name ELSE actor.username
ActorRoles(actor) == IF actor.kind = "str" THEN {} ELSE actor.roles

\* params=None, the default of allow
ParamsNone == [k \in {"params"} |-> None]

\* a JSON list as the value of a parameter, written as Python prints it
L_auth == "['auth']"

\* hash(v): a list cannot be part of a dict key
Hashable(v) == v \notin {L_auth}

\* faulty variant: every action has every prefix
StartsWith_Any(action, prefix) == TRUE

\* action.startswith(prefix), for the action names of the model
StartsWith(action, prefix) ==
    <<action, prefix>> \in {<<"data.read", "data.">>,
                            <<"user.change_role", "user.">>}

\* faulty variant: an entry exactly one window old still counts
InWindow_Inclusive(entry, t) == t - entry <= RATE_WINDOW

\* faulty variant: the window closes a second early
InWindow_Short(entry, t) == t - entry < RATE_WINDOW - 1

\* (now - t).total_seconds() < 3600
InWindow(entry, t) == t - entry < RATE_WINDOW

Prune(history, t) == SelectSeq(history, LAMBDA entry : InWindow(entry, t))

HistoryGet(hist, key) == IF key \in DOMAIN hist THEN hist[key] ELSE <<>>

\* faulty variant: one list per actor, shared by all its services
HistoryPut_PerActor(hist, key, v) ==
    [k \in DOMAIN hist \cup {key} |-> IF k[1] = key[1] THEN v ELSE hist[k]]

HistoryPut(hist, key, v) ==
    [k \in DOMAIN hist \cup {key} |-> IF k = key THEN v ELSE hist[k]]

\* faulty variant: the agent_id is never compared with the username
IdentityMismatch_Never(agent_id, username) == FALSE

\* agent_id and username and agent_id != username
IdentityMismatch(agent_id, username) ==
    Truthy(agent_id) /\ Truthy(username) /\ agent_id # username

\* faulty variant: a junior role takes the admin bypass away
IsAdmin_UnlessJunior(roles) ==
    ("admin" \in roles \/ "superadmin" \in roles) /\ "junior" \notin roles

\* "admin" in roles or "superadmin" in roles
IsAdmin(roles) == "admin" \in roles \/ "superadmin" \in roles

\* faulty variant: a permitted junior restart is recorded by allow itself
allow_Committing(actor, action, params, hist, t) ==
    LET username == ActorUsername(actor)
        roles == ActorRoles(actor)
        p == IF params = ParamsNone THEN EmptyDict ELSE params
        agent_id == Get(p, "agent_id")
        service_id == Get(p, "service_id")
        key == <<username, service_id>>
        valid_history == Prune(HistoryGet(hist, key), t)
    IN  IF IdentityMismatch(agent_id, username)
        THEN [ok |-> FALSE, why |-> "identity", hist |-> hist]
        ELSE IF IsAdmin(roles)
        THEN [ok |-> TRUE, why |-> "admin", hist |-> hist]
        ELSE IF action = "infra.restart" /\ ~Truthy(service_id)
        THEN [ok |-> FALSE, why |-> "missing", hist |-> hist]
        ELSE IF action = "infra.restart" /\ "junior" \in roles
        THEN IF ~Hashable(service_id)
             THEN [ok |-> FALSE, why |-> "TypeError", hist |-> hist]
             ELSE IF Len(valid_history) >= JUNIOR_LIMIT
             THEN [ok |-> FALSE, why |-> "limit",
                   hist |-> HistoryPut(hist, key, valid_history)]
             ELSE [ok |-> TRUE, why |-> "junior",
                   hist |-> HistoryPut(hist, key, Append(valid_history, t))]
        ELSE IF action = "alert.create"
        THEN [ok |-> TRUE, why |-> "alert", hist |-> hist]
        ELSE IF StartsWith(action, "data.")
        THEN [ok |-> TRUE, why |-> "data", hist |-> hist]
        ELSE IF StartsWith(action, "user.") /\ "junior" \in roles
        THEN [ok |-> TRUE, why |-> "user", hist |-> hist]
        ELSE [ok |-> FALSE, why |-> "denied", hist |-> hist]

(* allow: the decision, the branch that took it, and _RESTART_HISTORY as   *)
(* the call leaves it (the junior branch stores the pruned list).          *)
allow(actor, action, params, hist, t) ==
    LET username == ActorUsername(actor)
        roles == ActorRoles(actor)
        p == IF params = ParamsNone THEN EmptyDict ELSE params
        agent_id == Get(p, "agent_id")
        service_id == Get(p, "service_id")
        key == <<username, service_id>>
        valid_history == Prune(HistoryGet(hist, key), t)
    IN  IF IdentityMismatch(agent_id, username)
        THEN [ok |-> FALSE, why |-> "identity", hist |-> hist]
        ELSE IF IsAdmin(roles)
        THEN [ok |-> TRUE, why |-> "admin", hist |-> hist]
        ELSE IF action = "infra.restart" /\ ~Truthy(service_id)
        THEN [ok |-> FALSE, why |-> "missing", hist |-> hist]
        ELSE IF action = "infra.restart" /\ "junior" \in roles
        THEN IF ~Hashable(service_id)
             THEN [ok |-> FALSE, why |-> "TypeError", hist |-> hist]
             ELSE IF Len(valid_history) >= JUNIOR_LIMIT
             THEN [ok |-> FALSE, why |-> "limit",
                   hist |-> HistoryPut(hist, key, valid_history)]
             ELSE [ok |-> TRUE, why |-> "junior",
                   hist |-> HistoryPut(hist, key, valid_history)]
        ELSE IF action = "alert.create"
        THEN [ok |-> TRUE, why |-> "alert", hist |-> hist]
        ELSE IF StartsWith(action, "data.")
        THEN [ok |-> TRUE, why |-> "data", hist |-> hist]
        ELSE IF StartsWith(action, "user.") /\ "junior" \in roles
        THEN [ok |-> TRUE, why |-> "user", hist |-> hist]
        ELSE [ok |-> FALSE, why |-> "denied", hist |-> hist]

\* faulty variant: consume_quota records nothing
consume_quota_Noop(actor, action, params, hist, t) == hist

(* consume_quota: _RESTART_HISTORY as the call leaves it *)
consume_quota(actor, action, params, hist, t) ==
    LET username == ActorUsername(actor)
        roles == ActorRoles(actor)
        service_id == Get(params, "service_id")
        key == <<username, service_id>>
    IN  IF action = "infra.restart" /\ Truthy(service_id)
           /\ "junior" \in roles /\ Hashable(service_id)
        THEN HistoryPut(hist, key,
                        Append(Prune(HistoryGet(hist, key), t), t))
        ELSE hist

\* the second element of the pair allow returns
PolicyReason(why) ==
    IF why = "identity" THEN "Identity mismatch"
    ELSE IF why = "admin" THEN "Admin access granted"
    ELSE IF why = "missing" THEN "Missing service_id parameter"
    ELSE IF why = "limit" THEN "Junior Limit: Max 1 restart per hour"
    ELSE IF why = "junior" THEN "Junior access granted"
    ELSE IF why = "alert" THEN "Alert creation allowed"
    ELSE IF why = "data" THEN "Data operation allowed"
    ELSE IF why = "user" THEN "Allowed for Junior"
    ELSE IF why = "denied" THEN "Action denied for role(s)"
    ELSE ""

(* Calls of the policy engine *)
A_bob == ActorDict("bob", {"junior"})
A_dave == ActorDict("dave", {"junior"})
A_alice == ActorDict("alice", {"admin"})
A_boss == ActorDict("bob", {"junior", "admin"})
\* a dict without "username": actor.get("username") is None
A_anon == ActorDict(None, {"superadmin"})

PolicyActors == {A_bob, A_dave, A_alice, A_boss, A_anon}
PolicyActions == {"infra.restart", "alert.create"}
PolicyServices == {"auth", "db"}

AgentIds == {"bob", ""}

PolicyParams ==
    {EmptyDict}
    \cup {[k \in {"agent_id"} |-> a] : a \in AgentIds}
    \cup {[k \in {"service_id"} |-> x] : x \in PolicyServices}
    \cup {[k \in {"service_id", "agent_id"} |->
             IF k = "service_id" THEN x ELSE a] :
                x \in PolicyServices, a \in AgentIds}

PolicyCalls ==
    {[op |-> o, actor |-> a, action |-> n, params |-> p] :
        o \in {"allow", "consume"}, a \in PolicyActors, n \in PolicyActions,
        p \in PolicyParams}

\* Calls of allow with every kind of actor, action and parameter map
A_carol == ActorDict("carol", {"readonly"})
\* a dict without "roles": actor.get("roles", []) is []
A_erin == ActorDict("erin", {})

RuleActors == {ActorStr("bob"), A_bob, A_carol, A_erin, A_alice, A_anon}
RuleActions ==
    {"infra.restart", "alert.create", "data.read", "user.change_role",
     "infra.scale"}
RuleParams ==
    {ParamsNone, EmptyDict,
     [k \in {"service_id"} |-> "auth"],
     [k \in {"service_id"} |-> L_auth],
     [k \in {"service_id", "agent_id"} |->
        IF k = "service_id" THEN "auth" ELSE "bob"]}

RuleCalls ==
    {[op |-> "allow", actor |-> a, action |-> n, params |-> p] :
        a \in RuleActors, n \in RuleActions, p \in RuleParams}
    \cup {[op |-> "consume", actor |-> A_bob, action |-> "infra.restart",
           params |-> [k \in {"service_id"} |-> "auth"]]}

\* Requests that take every path of execute_tool to a rejection
\* The X-ArmorIQ-User-Email header: absent, empty, or another user's
CoreEmails == {None, "", "mallory"}

CoreRequests ==
    {[op |-> "execute", intent_token |-> t, tool_name |-> "infra.restart",
      parameters |-> p, user_email |-> e] :
        t \in {EmptyToken, OpaqueToken,
               Jwt(ARMORIQ_SECRET, RATE_WINDOW, "j1", "admin_agent",
                   <<S_auth_by>>),
               Jwt("wrong-secret", RATE_WINDOW, "j1", "admin_agent",
                   <<S_auth_by>>)},
        p \in {P_auth, P_auth_by},
        e \in CoreEmails}

RECURSIVE SumLen(_, _)
SumLen(f, keys) ==
    IF keys = {} THEN 0
    ELSE LET k == CHOOSE x \in keys : TRUE
         IN  Len(f[k]) + SumLen(f, keys \ {k})

\* the number of consumes recorded so far
Consumed == SumLen(consumeLog, DOMAIN consumeLog)

----------------------------------------------------------------------------
(* mcp/infra.py: the REST endpoint POST /mcp/infra/restart.  current_user  *)
(* is what the get_current_user dependency resolved the bearer token to.   *)

RestartParams(agent_id, service_id) ==
    [k \in {"service_id", "agent_id"} |->
        IF k = "service_id" THEN service_id ELSE agent_id]

\* faulty variant: the quota is consumed before the service is looked up
restart_service_ConsumeFirst(agent_id, service_id, current_user, hist, svc, t) ==
    LET params == RestartParams(agent_id, service_id)
        d == allow(current_user, "infra.restart", params, hist, t)
        c == consume_quota(current_user, "infra.restart", params, d.hist, t)
    IN  IF agent_id # current_user.username
        THEN [status |-> 403, why |-> "identity", hist |-> hist,
              services |-> svc]
        ELSE IF ~d.ok
        THEN [status |-> 403, why |-> "policy", hist |-> d.hist,
              services |-> svc]
        ELSE IF service_id \notin DOMAIN svc
        THEN [status |-> 404, why |-> "notfound", hist |-> c,
              services |-> svc]
        ELSE [status |-> 200, why |-> "ok", hist |-> c,
              services |-> [svc EXCEPT ![service_id] = "running"]]

\* restart_service: the HTTP status, _RESTART_HISTORY and the services as
\* the request leaves them
restart_service(agent_id, service_id, current_user, hist, svc, t) ==
    LET params == RestartParams(agent_id, service_id)
        d == allow(current_user, "infra.restart", params, hist, t)
    IN  IF agent_id # current_user.username
        THEN [status |-> 403, why |-> "identity", hist |-> hist,
              services |-> svc]
        ELSE IF ~d.ok
        THEN [status |-> 403, why |-> "policy", hist |-> d.hist,
              services |-> svc]
        ELSE IF service_id \notin DOMAIN svc
        THEN [status |-> 404, why |-> "notfound", hist |-> d.hist,
              services |-> svc]
        ELSE [status |-> 200, why |-> "ok",
              hist |-> consume_quota(current_user, "infra.restart", params,
                                     d.hist, t),
              services |-> [svc EXCEPT ![service_id] = "running"]]

RestartRequests ==
    {[op |-> "restart", agent_id |-> a, service_id |-> x,
      current_user |-> u] :
        a \in {"bob", "alice"}, x \in {"auth", "db", "ghost"},
        u \in {A_bob, A_alice}}

----------------------------------------------------------------------------
(* backend/armoriq/client.py: ArmorIQGateway in mock mode (use_mock), the  *)
(* mode the gateway falls back to without SDK credentials.                 *)

\* The names bound at module level in backend/armoriq/client.py
ClientGlobals ==
    {"os", "json", "sys", "logging", "dotenv", "requests", "Dict", "Any",
     "logger", "ARMORIQ_SECRET", "ArmorIQGateway", "gateway"}

\* The global names get_intent_token reads while it builds and signs the
\* payload
MintNames == {"datetime", "timedelta", "uuid", "jwt", "ARMORIQ_SECRET"}

MockPlanId == [kind |-> "str", value |-> "mock-plan-id-123"]

\* a step whose action no tool module registers
S_reboot == PlanStep("infra.reboot", P_auth)

StepPool == {S_auth, S_db, S_auth_by, S_list, S_reboot}

Plans ==
    {[steps |-> q] : q \in UNION {[1..n -> StepPool] : n \in 1..MaxSteps}}

\* The loop of get_intent_token over the captured plan's steps
BoundActions(captured) ==
    IF captured.kind = "dict" /\ "plan" \in DOMAIN captured
    THEN [i \in 1..Len(captured.plan.steps) |->
            [action |-> captured.plan.steps[i].action,
             params |-> captured.plan.steps[i].params]]
    ELSE <<>>

----------------------------------------------------------------------------
(* The plan loops of orchestrator/runner.py (execute_cycle) and            *)
(* agent/server.py (run_agent)                                             *)

Runners == {"execute_cycle", "run_agent"}

BOT_USER == "admin_agent"

Raised == [kind |-> "raised", error |-> "NameError"]

\* an IntentToken object of the ArmorIQ SDK; whether it can be sliced is
\* the SDK's business
SdkToken(sliceable) == [kind |-> "object", sliceable |-> sliceable]

\* What capture_plan and get_intent_token hand back for plan p at time t:
\* the mock raises; the SDK returns an object or a string, which may be
\* a token signed for the plan's steps.
GovernOutcomes(p, t) ==
    {Raised, SdkToken(TRUE), SdkToken(FALSE), OpaqueToken,
     Jwt("wrong-secret", t + TOKEN_TTL, "j1", BOT_USER, p.steps)}
    \cup {Jwt(ARMORIQ_SECRET, t + TOKEN_TTL, j, BOT_USER, p.steps) :
            j \in JTIs}

\* faulty variant: the exception of the governance stage is swallowed
Blocked_Never(loop, tok) == FALSE

\* the governance stage ends the cycle with status "blocked" when it raises:
\* get_intent_token raised, or execute_cycle's intent_token[:8] did
Blocked(loop, tok) ==
    \/ tok.kind = "raised"
    \/ loop = "execute_cycle" /\ tok.kind = "object" /\ ~tok.sliceable

\* gateway.invoke: the token string put in the request body
token_str(tok) == IF tok.kind = "object" THEN OpaqueToken ELSE tok

\* the except clause of the loop ends with break
StopsOnFailure(loop) == loop = "execute_cycle"

\* the status the function returns once its loop is over
FinalStatus(loop) == IF loop = "execute_cycle" THEN "success" ELSE "completed"

----------------------------------------------------------------------------
(* Worker threads.  execute_tool and the endpoints that call consume_quota *)
(* are declared with def, so the server runs each request on a thread of   *)
(* its pool and the statements of two requests interleave.                 *)
Workers == {"w1", "w2"}

Idle == [pc |-> "idle"]

Busy == {w \in Workers : thr[w] # Idle}

\* two clients present tokens of the same plan step
RaceRequests ==
    {r \in ExecuteRequests :
        /\ r.intent_token \in
              {EmptyToken} \cup
              {Jwt(ARMORIQ_SECRET, RATE_WINDOW, j, "admin_agent",
                   <<S_auth_by>>) : j \in JTIs}
        /\ r.tool_name = "infra.restart"
        /\ r.parameters \in {P_auth, P_auth_by}
        /\ r.user_email = None}

\* juniors record a restart of auth
RaceConsumes ==
    {c \in PolicyCalls :
        /\ c.op = "consume"
        /\ c.actor \in {A_bob, A_dave}
        /\ c.action \in {"infra.restart", "alert.create"}
        /\ c.params = [k \in {"service_id"} |-> "auth"]}

\* state.alerts, once the alerts of the model were created by add_alert
AlertIds == {"alert_1", "alert_2"}

NewAlert ==
    [resolved |-> FALSE, status |-> "open", resolved_by |-> None,
     resolution_note |-> None]

(* Registrations: the decorators of a tool module run when it is imported *)
RegNames == {"infra.list", "infra.restart", "infra.scale"}
RegHandlers == {InfraHandler(n) : n \in RegNames}
RegParameters == {{}, {"service_id"}, {"service_id", "user_email"}}

\* dict item assignment: d[k] = v
DictPut(d, k, v) == [x \in DOMAIN d \cup {k} |-> IF x = k THEN v ELSE d[x]]

----------------------------------------------------------------------------
Init ==
    /\ USED_TOKENS = {}
    /\ services = [s \in ServiceIds |-> "running"]
    /\ audit_log = <<>>
    /\ RESTART_HISTORY = <<>>
    /\ now = 0
    /\ req = NoCall
    /\ resp = NoCall
    /\ accepted = {}
    /\ presented = {}
    /\ failed = {}
    /\ consumeLog = <<>>
    /\ plan = <<>>
    /\ captured_plan = NoCall
    /\ allowed_actions = <<>>
    /\ intent_token = NoToken
    /\ gw_pc = "idle"
    /\ runner = "none"
    /\ step_no = 0
    /\ results = <<>>
    /\ run_status = "none"
    /\ thr = [w \in Workers |-> Idle]
    /\ passCount = [j \in JTIs |-> 0]
    /\ tools = [n \in RegisteredTools |-> InfraHandler(n)]
    /\ definitions = [n \in RegisteredTools |-> RequiredParams(n)]
    /\ alerts = [a \in AlertIds |-> NewAlert]
    /\ resolves = [a \in AlertIds |-> <<>>]

(* Time passes.  Each handler reads the clock once, so time that passes    *)
(* while a call is in flight is time that passed before it or after it.    *)
Tick ==
    /\ req = NoCall
    /\ \E t \in Times : t > now /\ now' = t
    /\ UNCHANGED raceVars
    /\ UNCHANGED <<registryVars, alertVars>>
    /\ UNCHANGED <<tokenVars, policyVars, gatewayVars, runVars, req, resp>>

(* A client posts to /mcp/tools/execute *)
ReceiveExecute(r) ==
    /\ req = NoCall
    /\ req' = r
    /\ UNCHANGED raceVars
    /\ UNCHANGED <<registryVars, alertVars>>
    /\ UNCHANGED <<tokenVars, policyVars, gatewayVars, runVars, now, resp>>

\* faulty variant: a token that fails the action check is only logged
execute_tool_Ungated ==
    /\ req.op = "execute"
    /\ resp = NoCall
    /\ LET tok == req.intent_token
           v == verify_armoriq_token(tok, req.tool_name, req.parameters,
                                     req.user_email, USED_TOKENS, now)
           h == CallHandler(req.tool_name, req.parameters, services,
                            audit_log)
       IN  IF tok.kind = "empty"
           THEN /\ resp' = Response(401, "missing", FALSE, now)
                /\ UNCHANGED <<USED_TOKENS, services, audit_log, accepted,
                               presented, failed>>
           ELSE IF ~v.ok /\ v.why # "action"
           THEN /\ resp' = Response(403, v.why, FALSE, now)
                /\ USED_TOKENS' = v.used
                /\ presented' = IF DecodeOK(tok, now) /\ Truthy(tok.jti)
                                THEN presented \cup {tok.jti} ELSE presented
                /\ UNCHANGED <<services, audit_log, accepted, failed>>
           ELSE /\ USED_TOKENS' = v.used
                /\ accepted' = accepted \cup {tok.jti}
                /\ presented' = presented \cup {tok.jti}
                /\ IF get_tool(req.tool_name) = None
                   THEN /\ resp' = Response(404, "ok", FALSE, now)
                        /\ UNCHANGED <<services, audit_log, failed>>
                   ELSE /\ resp' = Response(h.status, "ok", TRUE, now)
                        /\ services' = h.services
                        /\ audit_log' = h.audit_log
                        /\ failed' = IF h.status = 200 THEN failed
                                      ELSE failed \cup {tok.jti}
    /\ UNCHANGED raceVars
    /\ UNCHANGED <<registryVars, alertVars>>
    /\ UNCHANGED <<policyVars, gatewayVars, runVars, now, req>>

\* faulty variant: an empty token goes to verify_armoriq_token like any other
execute_tool_NoEmptyCheck ==
    /\ req.op = "execute"
    /\ resp = NoCall
    /\ LET tok == req.intent_token
           v == verify_armoriq_token(tok, req.tool_name, req.parameters,
                                     req.user_email, USED_TOKENS, now)
           h == CallHandler(req.tool_name, req.parameters, services,
                            audit_log)
       IN  IF ~v.ok
           THEN /\ resp' = Response(403, v.why, FALSE, now)
                /\ USED_TOKENS' = v.used
                /\ presented' = IF DecodeOK(tok, now) /\ Truthy(tok.jti)
                                THEN presented \cup {tok.jti} ELSE presented
                /\ UNCHANGED <<services, audit_log, accepted, failed>>
           ELSE /\ USED_TOKENS' = v.used
                /\ accepted' = accepted \cup {tok.jti}
                /\ presented' = presented \cup {tok.jti}
                /\ IF get_tool(req.tool_name) = None
                   THEN /\ resp' = Response(404, "ok", FALSE, now)
                        /\ UNCHANGED <<services, audit_log, failed>>
                   ELSE /\ resp' = Response(h.status, "ok", TRUE, now)
                        /\ services' = h.services
                        /\ audit_log' = h.audit_log
                        /\ failed' = IF h.status = 200 THEN failed
                                      ELSE failed \cup {tok.jti}
    /\ UNCHANGED raceVars
    /\ UNCHANGED <<registryVars, alertVars>>
    /\ UNCHANGED <<policyVars, gatewayVars, runVars, now, req>>

(* execute_tool *)
execute_tool ==
    /\ req.op = "execute"
    /\ resp = NoCall
    /\ LET tok == req.intent_token
           v == verify_armoriq_token(tok, req.tool_name, req.parameters,
                                     req.user_email, USED_TOKENS, now)
           h == CallHandler(req.tool_name, req.parameters, services,
                            audit_log)
       IN  IF tok.kind = "empty"
           THEN /\ resp' = Response(401, "missing", FALSE, now)
                /\ UNCHANGED <<USED_TOKENS, services, audit_log, accepted,
                               presented, failed>>
           ELSE IF ~v.ok
           THEN /\ resp' = Response(403, v.why, FALSE, now)
                /\ USED_TOKENS' = v.used
                /\ presented' = IF DecodeOK(tok, now) /\ Truthy(tok.jti)
                                THEN presented \cup {tok.jti} ELSE presented
                /\ UNCHANGED <<services, audit_log, accepted, failed>>
           ELSE /\ USED_TOKENS' = v.used
                /\ accepted' = accepted \cup {tok.jti}
                /\ presented' = presented \cup {tok.jti}
                /\ IF get_tool(req.tool_name) = None
                   THEN /\ resp' = Response(404, "ok", FALSE, now)
                        /\ UNCHANGED <<services, audit_log, failed>>
                   ELSE /\ resp' = Response(h.status, "ok", TRUE, now)
                        /\ services' = h.services
                        /\ audit_log' = h.audit_log
                        /\ failed' = IF h.status = 200 THEN failed
                                      ELSE failed \cup {tok.jti}
    /\ UNCHANGED raceVars
    /\ UNCHANGED <<registryVars, alertVars>>
    /\ UNCHANGED <<policyVars, gatewayVars, runVars, now, req>>

(* The response leaves the server *)
Deliver ==
    /\ resp # NoCall
    /\ req' = NoCall
    /\ resp' = NoCall
    /\ UNCHANGED raceVars
    /\ UNCHANGED <<registryVars, alertVars>>
    /\ UNCHANGED <<tokenVars, policyVars, gatewayVars, runVars, now>>

NextToken ==
    \/ Tick
    \/ \E r \in ExecuteRequests : ReceiveExecute(r)
    \/ execute_tool
    \/ Deliver

SpecToken == Init /\ [][NextToken]_vars

----------------------------------------------------------------------------
(* A caller invokes the policy engine *)
CallPolicy(c) ==
    /\ req = NoCall
    /\ c.op = "consume" => Consumed < MaxConsumes
    /\ req' = c
    /\ UNCHANGED raceVars
    /\ UNCHANGED <<registryVars, alertVars>>
    /\ UNCHANGED <<tokenVars, policyVars, gatewayVars, runVars, now, resp>>

allow_call ==
    /\ req.op = "allow"
    /\ resp = NoCall
    /\ LET r == allow(req.actor, req.action, req.params, RESTART_HISTORY, now)
       IN  /\ resp' = [ok |-> r.ok, why |-> r.why, at |-> now,
                       reason |-> PolicyReason(r.why),
                       raised |-> r.why = "TypeError"]
           /\ RESTART_HISTORY' = r.hist
    /\ UNCHANGED raceVars
    /\ UNCHANGED <<registryVars, alertVars>>
    /\ UNCHANGED <<tokenVars, gatewayVars, runVars, consumeLog, now, req>>

\* consumeLog keeps every consume of a junior's restart, unpruned
consume_call ==
    /\ req.op = "consume"
    /\ resp = NoCall
    /\ RESTART_HISTORY' = consume_quota(req.actor, req.action, req.params,
                                        RESTART_HISTORY, now)
    /\ LET key == <<ActorUsername(req.actor), Get(req.params, "service_id")>>
       IN  consumeLog' =
             IF /\ req.action = "infra.restart"
                /\ "service_id" \in DOMAIN req.params
                /\ "junior" \in ActorRoles(req.actor)
             THEN HistoryPut(consumeLog, key,
                             Append(HistoryGet(consumeLog, key), now))
             ELSE consumeLog
    /\ resp' = [ok |-> TRUE, why |-> "consumed", at |-> now]
    /\ UNCHANGED raceVars
    /\ UNCHANGED <<registryVars, alertVars>>
    /\ UNCHANGED <<tokenVars, gatewayVars, runVars, now, req>>

NextPolicy ==
    \/ Tick
    \/ \E c \in PolicyCalls : CallPolicy(c)
    \/ allow_call
    \/ consume_call
    \/ Deliver

SpecPolicy == Init /\ [][NextPolicy]_vars

(* The MCP server and the policy engine, each with its own callers *)
NextCore ==
    \/ Tick
    \/ \E r \in CoreRequests : ReceiveExecute(r)
    \/ \E c \in RuleCalls : CallPolicy(c)
    \/ execute_tool
    \/ allow_call
    \/ consume_call
    \/ Deliver

SpecCore == Init /\ [][NextCore]_vars

----------------------------------------------------------------------------
(* gateway.capture_plan(llm, prompt, plan) *)
capture_plan(p) ==
    /\ gw_pc = "idle"
    /\ plan' = p
    /\ captured_plan' = MockPlanId
    /\ gw_pc' = "captured"
    /\ UNCHANGED raceVars
    /\ UNCHANGED <<registryVars, alertVars>>
    /\ UNCHANGED <<runVars, tokenVars, policyVars, now, req, resp,
                   allowed_actions,
                   intent_token>>

(* gateway.get_intent_token(captured_plan): the bound actions are built *)
get_intent_token_bind ==
    /\ gw_pc = "captured"
    /\ allowed_actions' = BoundActions(captured_plan)
    /\ gw_pc' = "bound"
    /\ UNCHANGED raceVars
    /\ UNCHANGED <<registryVars, alertVars>>
    /\ UNCHANGED <<runVars, tokenVars, policyVars, now, req, resp, plan,
                   captured_plan, intent_token>>

(* gateway.get_intent_token(captured_plan): the payload is built and      *)
(* signed; a global name that is not bound raises NameError.              *)
get_intent_token_sign ==
    /\ gw_pc = "bound"
    /\ IF MintNames \subseteq ClientGlobals
       THEN \E j \in JTIs :
              intent_token' = Jwt(ARMORIQ_SECRET, now + TOKEN_TTL, j,
                                  "admin_agent", allowed_actions)
       ELSE intent_token' = [kind |-> "raised", error |-> "NameError"]
    /\ gw_pc' = "returned"
    /\ UNCHANGED raceVars
    /\ UNCHANGED <<registryVars, alertVars>>
    /\ UNCHANGED <<runVars, tokenVars, policyVars, now, req, resp, plan,
                   captured_plan, allowed_actions>>

(* The caller is done with the plan *)
gateway_done ==
    /\ gw_pc = "returned"
    /\ plan' = <<>>
    /\ captured_plan' = NoCall
    /\ allowed_actions' = <<>>
    /\ intent_token' = NoToken
    /\ gw_pc' = "idle"
    /\ UNCHANGED raceVars
    /\ UNCHANGED <<registryVars, alertVars>>
    /\ UNCHANGED <<runVars, tokenVars, policyVars, now, req, resp>>

NextMint ==
    \/ Tick
    \/ \E p \in Plans : capture_plan(p)
    \/ get_intent_token_bind
    \/ get_intent_token_sign
    \/ gateway_done

SpecMint == Init /\ [][NextMint]_vars

----------------------------------------------------------------------------
(* A client posts to /mcp/infra/restart *)
ReceiveRestart(r) ==
    /\ req = NoCall
    /\ req' = r
    /\ UNCHANGED raceVars
    /\ UNCHANGED <<registryVars, alertVars>>
    /\ UNCHANGED <<tokenVars, policyVars, gatewayVars, runVars, now, resp>>

\* consumeLog records the consume of a junior's successful restart
restart_call ==
    /\ req.op = "restart"
    /\ resp = NoCall
    /\ LET r == restart_service(req.agent_id, req.service_id,
                                req.current_user, RESTART_HISTORY, services,
                                now)
           key == <<req.current_user.username, req.service_id>>
       IN  /\ resp' = [status |-> r.status, why |-> r.why, at |-> now]
           /\ RESTART_HISTORY' = r.hist
           /\ services' = r.services
           /\ consumeLog' =
                 IF r.hist # allow(req.current_user, "infra.restart",
                                   RestartParams(req.agent_id,
                                                 req.service_id),
                                   RESTART_HISTORY, now).hist
                    /\ r.why # "identity"
                 THEN HistoryPut(consumeLog, key,
                                 Append(HistoryGet(consumeLog, key), now))
                 ELSE consumeLog
    /\ UNCHANGED raceVars
    /\ UNCHANGED <<registryVars, alertVars>>
    /\ UNCHANGED <<USED_TOKENS, audit_log, accepted, presented, failed,
                   gatewayVars, runVars, now, req>>

NextLegacy ==
    \/ Tick
    \/ \E r \in RestartRequests : ReceiveRestart(r)
    \/ restart_call
    \/ Deliver

SpecLegacy == Init /\ [][NextLegacy]_vars

----------------------------------------------------------------------------
(* A cycle starts: the plan is there and is submitted for a token *)
start_cycle(loop, p) ==
    /\ runner = "none"
    /\ req = NoCall
    /\ runner' = loop
    /\ plan' = p
    /\ \E tok \in GovernOutcomes(p, now) :
          /\ intent_token' = tok
          /\ run_status' = IF Blocked(loop, tok) THEN "blocked"
                           ELSE "running"
    /\ step_no' = 1
    /\ results' = <<>>
    /\ UNCHANGED raceVars
    /\ UNCHANGED <<registryVars, alertVars>>
    /\ UNCHANGED <<tokenVars, policyVars, now, req, resp, captured_plan,
                   allowed_actions, gw_pc>>

(* The loop body reaches gateway.invoke for the step it is at *)
invoke_call ==
    /\ run_status = "running"
    /\ req = NoCall
    /\ step_no <= Len(plan.steps)
    /\ req' = [op |-> "execute", intent_token |-> token_str(intent_token),
               tool_name |-> plan.steps[step_no].action,
               parameters |-> plan.steps[step_no].params,
               user_email |-> BOT_USER]
    /\ UNCHANGED raceVars
    /\ UNCHANGED <<registryVars, alertVars>>
    /\ UNCHANGED <<tokenVars, policyVars, gatewayVars, now, resp, runner,
                   step_no, results, run_status>>

\* faulty variant: a failed step is invoked again
invoke_return_Retry ==
    /\ run_status = "running"
    /\ req.op = "execute"
    /\ resp # NoCall
    /\ LET ok == resp.status = 200
           over == \/ step_no = Len(plan.steps)
                   \/ ~ok /\ StopsOnFailure(runner)
       IN  /\ results' = Append(results,
                                [action |-> req.tool_name,
                                 status |-> IF ok THEN "success"
                                            ELSE "failed",
                                 http |-> resp.status,
                                 why |-> resp.why,
                                 at |-> resp.at])
           /\ step_no' = IF ok /\ ~over THEN step_no + 1 ELSE step_no
           /\ run_status' = IF ok /\ over THEN FinalStatus(runner)
                            ELSE "running"
    /\ req' = NoCall
    /\ resp' = NoCall
    /\ UNCHANGED raceVars
    /\ UNCHANGED <<registryVars, alertVars>>
    /\ UNCHANGED <<tokenVars, policyVars, gatewayVars, now, runner>>

(* gateway.invoke returns or raises (raise_for_status), the step result is *)
(* appended and the loop goes on, stops, or is over                        *)
invoke_return ==
    /\ run_status = "running"
    /\ req.op = "execute"
    /\ resp # NoCall
    /\ LET ok == resp.status = 200
           over == \/ step_no = Len(plan.steps)
                   \/ ~ok /\ StopsOnFailure(runner)
       IN  /\ results' = Append(results,
                                [action |-> req.tool_name,
                                 status |-> IF ok THEN "success"
                                            ELSE "failed",
                                 http |-> resp.status,
                                 why |-> resp.why,
                                 at |-> resp.at])
           /\ step_no' = IF over THEN step_no ELSE step_no + 1
           /\ run_status' = IF over THEN FinalStatus(runner) ELSE "running"
    /\ req' = NoCall
    /\ resp' = NoCall
    /\ UNCHANGED raceVars
    /\ UNCHANGED <<registryVars, alertVars>>
    /\ UNCHANGED <<tokenVars, policyVars, gatewayVars, now, runner>>

(* The function returns its result *)
cycle_return ==
    /\ run_status \notin {"none", "running"}
    /\ runner' = "none"
    /\ plan' = <<>>
    /\ intent_token' = NoToken
    /\ step_no' = 0
    /\ results' = <<>>
    /\ run_status' = "none"
    /\ UNCHANGED raceVars
    /\ UNCHANGED <<registryVars, alertVars>>
    /\ UNCHANGED <<tokenVars, policyVars, now, req, resp, captured_plan,
                   allowed_actions, gw_pc>>

NextPlan ==
    \/ Tick
    \/ \E loop \in Runners, p \in Plans : start_cycle(loop, p)
    \/ invoke_call
    \/ execute_tool
    \/ invoke_return
    \/ cycle_return

SpecPlan == Init /\ [][NextPlan]_vars

\* The loop runs on, and the server answers every request it gets
SpecPlanFair ==
    /\ SpecPlan
    /\ WF_vars(invoke_call)
    /\ WF_vars(execute_tool)
    /\ WF_vars(invoke_return)

----------------------------------------------------------------------------
(* execute_tool on worker threads, statement by statement *)

\* a worker takes a request
execute_begin(w, r) ==
    /\ thr[w] = Idle
    /\ thr' = [thr EXCEPT ![w] = [pc |-> "verify", req |-> r]]
    /\ UNCHANGED <<registryVars, alertVars>>
    /\ UNCHANGED <<tokenVars, policyVars, gatewayVars, runVars, now, req,
                   resp, passCount>>

\* jwt.decode and the test `not jti or jti in USED_TOKENS`
verify_check(w) ==
    /\ thr[w].pc = "verify"
    /\ LET r == thr[w].req
           tok == r.intent_token
       IN  thr' = [thr EXCEPT ![w] =
             IF tok.kind = "empty"
             THEN [pc |-> "done", req |-> r,
                   resp |-> Response(401, "missing", FALSE, now)]
             ELSE IF ~DecodeOK(tok, now)
             THEN [pc |-> "done", req |-> r,
                   resp |-> Response(403, "jwt", FALSE, now)]
             ELSE IF ~Truthy(tok.jti) \/ tok.jti \in USED_TOKENS
             THEN [pc |-> "done", req |-> r,
                   resp |-> Response(403, "reuse", FALSE, now)]
             ELSE [pc |-> "add", req |-> r]]
    /\ UNCHANGED <<registryVars, alertVars>>
    /\ UNCHANGED <<tokenVars, policyVars, gatewayVars, runVars, now, req,
                   resp, passCount>>

\* USED_TOKENS.add(jti), then the subject and action checks
verify_add(w) ==
    /\ thr[w].pc = "add"
    /\ LET r == thr[w].req
           tok == r.intent_token
       IN  /\ USED_TOKENS' = USED_TOKENS \cup {tok.jti}
           /\ IF ~SubjectOK(tok, r.user_email)
              THEN /\ thr' = [thr EXCEPT ![w] =
                              [pc |-> "done", req |-> r,
                               resp |-> Response(403, "user", FALSE, now)]]
                   /\ UNCHANGED passCount
              ELSE IF ~IsAuthorized(tok, r.tool_name, r.parameters)
              THEN /\ thr' = [thr EXCEPT ![w] =
                              [pc |-> "done", req |-> r,
                               resp |-> Response(403, "action", FALSE, now)]]
                   /\ UNCHANGED passCount
              ELSE /\ thr' = [thr EXCEPT ![w] =
                              [pc |-> "dispatch", req |-> r]]
                   /\ passCount' =
                        [passCount EXCEPT ![tok.jti] = passCount[tok.jti] + 1]
    /\ UNCHANGED <<registryVars, alertVars>>
    /\ UNCHANGED <<services, audit_log, accepted, presented, failed,
                   policyVars, gatewayVars, runVars, now, req, resp>>

\* registry.get_tool and tool_func(**parameters)
tool_dispatch(w) ==
    /\ thr[w].pc = "dispatch"
    /\ LET r == thr[w].req
           h == CallHandler(r.tool_name, r.parameters, services, audit_log)
       IN  IF get_tool(r.tool_name) = None
           THEN /\ thr' = [thr EXCEPT ![w] =
                           [pc |-> "done", req |-> r,
                            resp |-> Response(404, "ok", FALSE, now)]]
                /\ UNCHANGED <<services, audit_log>>
           ELSE /\ thr' = [thr EXCEPT ![w] =
                           [pc |-> "done", req |-> r,
                            resp |-> Response(h.status, "ok", TRUE, now)]]
                /\ services' = h.services
                /\ audit_log' = h.audit_log
    /\ UNCHANGED <<registryVars, alertVars>>
    /\ UNCHANGED <<USED_TOKENS, accepted, presented, failed, policyVars,
                   gatewayVars, runVars, now, req, resp, passCount>>

\* the response is sent and the worker is free again
execute_end(w) ==
    /\ thr[w].pc = "done"
    /\ thr' = [thr EXCEPT ![w] = Idle]
    /\ UNCHANGED <<registryVars, alertVars>>
    /\ UNCHANGED <<tokenVars, policyVars, gatewayVars, runVars, now, req,
                   resp, passCount>>

NextTokenRace ==
    \/ Tick
    \/ \E w \in Workers, r \in RaceRequests : execute_begin(w, r)
    \/ \E w \in Workers : verify_check(w)
    \/ \E w \in Workers : verify_add(w)
    \/ \E w \in Workers : tool_dispatch(w)
    \/ \E w \in Workers : execute_end(w)

SpecTokenRace == Init /\ [][NextTokenRace]_vars

----------------------------------------------------------------------------
(* consume_quota on worker threads, statement by statement *)

\* an endpoint calls consume_quota after its action succeeded
consume_begin(w, c) ==
    /\ thr[w] = Idle
    /\ Consumed + Cardinality(Busy) < MaxConsumes
    /\ thr' = [thr EXCEPT ![w] = [pc |-> "read", call |-> c]]
    /\ UNCHANGED <<registryVars, alertVars>>
    /\ UNCHANGED <<tokenVars, policyVars, gatewayVars, runVars, now, req,
                   resp, passCount>>

\* _RESTART_HISTORY.get(key, []), datetime.now() and the pruned copy
consume_read(w) ==
    /\ thr[w].pc = "read"
    /\ LET c == thr[w].call
           key == <<ActorUsername(c.actor), Get(c.params, "service_id")>>
       IN  thr' = [thr EXCEPT ![w] =
             IF /\ c.action = "infra.restart"
                /\ Truthy(Get(c.params, "service_id"))
                /\ "junior" \in ActorRoles(c.actor)
             THEN [pc |-> "write", call |-> c, key |-> key, t |-> now,
                   valid_history |->
                      Prune(HistoryGet(RESTART_HISTORY, key), now)]
             ELSE [pc |-> "return", call |-> c]]
    /\ UNCHANGED <<registryVars, alertVars>>
    /\ UNCHANGED <<tokenVars, policyVars, gatewayVars, runVars, now, req,
                   resp, passCount>>

\* valid_history.append(now) and _RESTART_HISTORY[key] = valid_history
consume_write(w) ==
    /\ thr[w].pc = "write"
    /\ LET l == thr[w]
       IN  /\ RESTART_HISTORY' =
                HistoryPut(RESTART_HISTORY, l.key,
                           Append(l.valid_history, l.t))
           /\ consumeLog' =
                HistoryPut(consumeLog, l.key,
                           Append(HistoryGet(consumeLog, l.key), l.t))
           /\ thr' = [thr EXCEPT ![w] = [pc |-> "return", call |-> l.call]]
    /\ UNCHANGED <<registryVars, alertVars>>
    /\ UNCHANGED <<tokenVars, gatewayVars, runVars, now, req, resp,
                   passCount>>

\* consume_quota returns None
consume_return(w) ==
    /\ thr[w].pc = "return"
    /\ thr' = [thr EXCEPT ![w] = Idle]
    /\ UNCHANGED <<registryVars, alertVars>>
    /\ UNCHANGED <<tokenVars, policyVars, gatewayVars, runVars, now, req,
                   resp, passCount>>

NextConsumeRace ==
    \/ Tick
    \/ \E w \in Workers, c \in RaceConsumes : consume_begin(w, c)
    \/ \E w \in Workers : consume_read(w)
    \/ \E w \in Workers : consume_write(w)
    \/ \E w \in Workers : consume_return(w)

SpecConsumeRace == Init /\ [][NextConsumeRace]_vars

----------------------------------------------------------------------------
(* The restart endpoint of mcp/infra.py on worker threads *)

\* restarts of auth asked by the junior bob, and one he asks for another
RaceRestarts ==
    {r \in RestartRequests :
        /\ r.current_user = A_bob
        /\ r.service_id \in {"auth", "ghost"}}

\* a worker takes a restart request
restart_begin(w, r) ==
    /\ thr[w] = Idle
    /\ thr' = [thr EXCEPT ![w] = [pc |-> "allow", req |-> r]]
    /\ UNCHANGED <<registryVars, alertVars>>
    /\ UNCHANGED <<tokenVars, policyVars, gatewayVars, runVars, now, req,
                   resp, passCount>>

\* the identity check and the call of allow
restart_allow(w) ==
    /\ thr[w].pc = "allow"
    /\ LET r == thr[w].req
           d == allow(r.current_user, "infra.restart",
                      RestartParams(r.agent_id, r.service_id),
                      RESTART_HISTORY, now)
       IN  IF r.agent_id # r.current_user.username
           THEN /\ thr' = [thr EXCEPT ![w] =
                           [pc |-> "done", req |-> r, status |-> 403,
                            why |-> "identity"]]
                /\ UNCHANGED RESTART_HISTORY
           ELSE /\ RESTART_HISTORY' = d.hist
                /\ thr' = [thr EXCEPT ![w] =
                             IF d.ok
                             THEN [pc |-> "update", req |-> r]
                             ELSE [pc |-> "done", req |-> r, status |-> 403,
                                   why |-> "policy"]]
    /\ UNCHANGED <<registryVars, alertVars>>
    /\ UNCHANGED <<tokenVars, consumeLog, gatewayVars, runVars, now, req,
                   resp, passCount>>

\* state.get_service and state.update_service
restart_update(w) ==
    /\ thr[w].pc = "update"
    /\ LET r == thr[w].req
       IN  IF r.service_id \notin DOMAIN services
           THEN /\ thr' = [thr EXCEPT ![w] =
                           [pc |-> "done", req |-> r, status |-> 404,
                            why |-> "notfound"]]
                /\ UNCHANGED services
           ELSE /\ thr' = [thr EXCEPT ![w] = [pc |-> "consume", req |-> r]]
                /\ services' = [services EXCEPT ![r.service_id] = "running"]
    /\ UNCHANGED <<registryVars, alertVars>>
    /\ UNCHANGED <<USED_TOKENS, audit_log, accepted, presented, failed,
                   policyVars, gatewayVars, runVars, now, req, resp,
                   passCount>>

\* the call of consume_quota and the success response; consumeLog records
\* the time of every restart that succeeded
restart_consume(w) ==
    /\ thr[w].pc = "consume"
    /\ LET r == thr[w].req
           key == <<r.current_user.username, r.service_id>>
       IN  /\ RESTART_HISTORY' =
                consume_quota(r.current_user, "infra.restart",
                              RestartParams(r.agent_id, r.service_id),
                              RESTART_HISTORY, now)
           /\ consumeLog' =
                HistoryPut(consumeLog, key,
                           Append(HistoryGet(consumeLog, key), now))
           /\ thr' = [thr EXCEPT ![w] =
                        [pc |-> "done", req |-> r, status |-> 200,
                         why |-> "ok"]]
    /\ UNCHANGED <<registryVars, alertVars>>
    /\ UNCHANGED <<tokenVars, gatewayVars, runVars, now, req, resp,
                   passCount>>

\* the response is sent
restart_end(w) ==
    /\ thr[w].pc = "done"
    /\ "status" \in DOMAIN thr[w]
    /\ thr' = [thr EXCEPT ![w] = Idle]
    /\ UNCHANGED <<registryVars, alertVars>>
    /\ UNCHANGED <<tokenVars, policyVars, gatewayVars, runVars, now, req,
                   resp, passCount>>

NextRestartRace ==
    \/ Tick
    \/ \E w \in Workers, r \in RaceRestarts : restart_begin(w, r)
    \/ \E w \in Workers : restart_allow(w)
    \/ \E w \in Workers : restart_update(w)
    \/ \E w \in Workers : restart_consume(w)
    \/ \E w \in Workers : restart_end(w)

SpecRestartRace == Init /\ [][NextRestartRace]_vars

----------------------------------------------------------------------------
(* The alert.resolve handler of mcp/alerts.py on worker threads: the       *)
(* requests have passed execute_tool's validation, each with its own token *)

ResolveCalls ==
    {[alert_id |-> a, resolution_note |-> n, user_email |-> u] :
        a \in AlertIds \cup {"alert_9"}, n \in {"restarted", "ignored"},
        u \in {"admin_agent", "mallory"}}

\* tool_func(**parameters) is called
resolve_begin(w, c) ==
    /\ thr[w] = Idle
    /\ thr' = [thr EXCEPT ![w] = [pc |-> "check", call |-> c]]
    /\ UNCHANGED <<registryVars, alertVars>>
    /\ UNCHANGED <<tokenVars, policyVars, gatewayVars, runVars, now, req,
                   resp, passCount>>

\* state.get_alert and the two tests that raise ValueError
resolve_check(w) ==
    /\ thr[w].pc = "check"
    /\ LET c == thr[w].call
       IN  thr' = [thr EXCEPT ![w] =
             IF c.alert_id \notin DOMAIN alerts
             THEN [pc |-> "done", call |-> c, status |-> 400,
                   why |-> "not found"]
             ELSE IF alerts[c.alert_id].resolved
             THEN [pc |-> "done", call |-> c, status |-> 400,
                   why |-> "already resolved"]
             ELSE [pc |-> "resolve", call |-> c]]
    /\ UNCHANGED <<registryVars, alertVars>>
    /\ UNCHANGED <<tokenVars, policyVars, gatewayVars, runVars, now, req,
                   resp, passCount>>

\* state.resolve_alert, under the lock of the state store
resolve_mark(w) ==
    /\ thr[w].pc = "resolve"
    /\ LET c == thr[w].call
       IN  /\ alerts' = [alerts EXCEPT ![c.alert_id].resolved = TRUE]
           /\ thr' = [thr EXCEPT ![w] = [pc |-> "note", call |-> c]]
    /\ UNCHANGED <<registryVars, resolves>>
    /\ UNCHANGED <<tokenVars, policyVars, gatewayVars, runVars, now, req,
                   resp, passCount>>

\* the handler writes status, resolved_by and resolution_note and returns
\* its success
resolve_note(w) ==
    /\ thr[w].pc = "note"
    /\ LET c == thr[w].call
       IN  /\ alerts' = [alerts EXCEPT ![c.alert_id] =
                           [@ EXCEPT !.status = "resolved",
                                     !.resolved_by = c.user_email,
                                     !.resolution_note = c.resolution_note]]
           /\ resolves' = [resolves EXCEPT ![c.alert_id] =
                             Append(@, c.user_email)]
           /\ thr' = [thr EXCEPT ![w] =
                        [pc |-> "done", call |-> c, status |-> 200,
                         why |-> "ok"]]
    /\ UNCHANGED registryVars
    /\ UNCHANGED <<tokenVars, policyVars, gatewayVars, runVars, now, req,
                   resp, passCount>>

\* execute_tool sends the result or the 400 of the ValueError
resolve_end(w) ==
    /\ thr[w].pc = "done"
    /\ thr' = [thr EXCEPT ![w] = Idle]
    /\ UNCHANGED <<registryVars, alertVars>>
    /\ UNCHANGED <<tokenVars, policyVars, gatewayVars, runVars, now, req,
                   resp, passCount>>

NextAlertRace ==
    \/ \E w \in Workers, c \in ResolveCalls : resolve_begin(w, c)
    \/ \E w \in Workers : resolve_check(w)
    \/ \E w \in Workers : resolve_mark(w)
    \/ \E w \in Workers : resolve_note(w)
    \/ \E w \in Workers : resolve_end(w)

SpecAlertRace == Init /\ [][NextAlertRace]_vars

----------------------------------------------------------------------------
(* registry.register(name, description, parameters)(func): the decorator  *)
(* stores the function and the definition under the name and returns the  *)
(* function                                                                *)
register(name, func, parameters) ==
    /\ req = NoCall
    /\ req' = [op |-> "register", name |-> name, func |-> func,
               parameters |-> parameters]
    /\ tools' = DictPut(tools, name, func)
    /\ definitions' = DictPut(definitions, name, parameters)
    /\ resp' = [op |-> "register", error |-> None, returned |-> func]
    /\ UNCHANGED alertVars
    /\ UNCHANGED <<tokenVars, policyVars, gatewayVars, runVars, raceVars,
                   now>>

NextRegistry ==
    \/ \E n \in RegNames, f \in RegHandlers, ps \in RegParameters :
          register(n, f, ps)
    \/ Deliver

SpecRegistry == Init /\ [][NextRegistry]_vars

Next ==
    \/ NextAlertRace
    \/ NextRegistry
    \/ NextRestartRace
    \/ NextToken
    \/ NextPolicy
    \/ NextCore
    \/ NextMint
    \/ NextLegacy
    \/ NextPlan
    \/ NextTokenRace
    \/ NextConsumeRace

Spec == Init /\ [][Next]_vars

----------------------------------------------------------------------------
(* Steps of execute_tool, as seen from outside *)

\* execute_tool answers a request that carries a JWT
ExecuteStep == req.op = "execute" /\ resp = NoCall /\ resp' # NoCall

Answered == req.op = "execute" /\ resp # NoCall

JwtAnswered == Answered /\ req.intent_token.kind = "jwt"

\* The request names an entry of its token and the token's subject
WellBound ==
    /\ IsAuthorized(req.intent_token, req.tool_name, req.parameters)
    /\ req.user_email = req.intent_token.sub

----------------------------------------------------------------------------
(* C1: once a token passed validation, every later presentation of a token *)
(* with the same id is answered 403 and runs no handler, whatever the      *)
(* action, the parameters and the caller.                                  *)
C1_ReplayRejected ==
    [][(ExecuteStep /\ req.intent_token.kind = "jwt"
        /\ req.intent_token.jti \in accepted)
       => (resp'.status = 403 /\ ~resp'.ran /\ accepted' = accepted)]_vars

\* the very request that was accepted before is rejected as a reuse
C1_Witness ==
    /\ JwtAnswered
    /\ req.intent_token.jti \in accepted
    /\ WellBound
    /\ resp.status = 403
    /\ resp.why = "reuse"

(* C4: a request passes validation only if the token binds an entry with   *)
(* the requested action name whose every bound key has the same value in   *)
(* the requested parameters (a key the request lacks reads as None).       *)
C4_ActionBinding ==
    (JwtAnswered /\ resp.status \notin {401, 403})
    => \E i \in 1..Len(req.intent_token.actions) :
          LET b == req.intent_token.actions[i] IN
          /\ b.action = req.tool_name
          /\ \A k \in DOMAIN b.params :
                b.params[k] = (IF k \in DOMAIN req.parameters
                               THEN req.parameters[k] ELSE None)

\* a token bound to restart auth, fresh and well signed, presented by its
\* subject for restart db, is rejected at the action check
C4_Witness ==
    /\ JwtAnswered
    /\ req.intent_token.actions = <<S_auth>>
    /\ req.tool_name = "infra.restart"
    /\ req.parameters = P_db
    /\ req.user_email = req.intent_token.sub
    /\ resp.status = 403
    /\ resp.why = "action"

(* C5: a presented token that passes the signature and expiry checks and   *)
(* carries an id has that id in USED_TOKENS afterwards, whatever the       *)
(* outcome; and a token whose id was so presented before is rejected.      *)
C5_BurnOnFirstPresentation ==
    [][(ExecuteStep /\ req.intent_token.kind = "jwt")
       => /\ (/\ req.intent_token.sig = ARMORIQ_SECRET
              /\ req.intent_token.exp >= now
              /\ req.intent_token.jti # None)
             => req.intent_token.jti \in USED_TOKENS'
          /\ req.intent_token.jti \in presented
             => (resp'.status = 403 /\ ~resp'.ran)]_vars

\* a correct presentation is rejected because an earlier, rejected one
\* burned the token
C5_Witness ==
    /\ JwtAnswered
    /\ req.intent_token.jti \in presented \ accepted
    /\ req.intent_token.sig = ARMORIQ_SECRET
    /\ req.intent_token.exp >= resp.at
    /\ WellBound
    /\ resp.status = 403
    /\ resp.why = "reuse"

(* C6: a presentation that supplies a caller identity different from the   *)
(* token's subject is rejected, also when action and parameters are bound. *)
C6_SubjectBinding ==
    (JwtAnswered /\ Truthy(req.user_email)
     /\ req.user_email # req.intent_token.sub)
    => (resp.status = 403 /\ ~resp.ran)

\* a fresh, valid token presented for a bound entry by another caller
C6_Witness ==
    /\ JwtAnswered
    /\ Truthy(req.user_email)
    /\ req.user_email # req.intent_token.sub
    /\ IsAuthorized(req.intent_token, req.tool_name, req.parameters)
    /\ resp.status = 403
    /\ resp.why = "user"

(* C7: a token whose expiry is in the past is rejected by the decode step  *)
(* for every action, parameters and caller, and USED_TOKENS is unchanged.  *)
C7_ExpiredRejected ==
    [][(ExecuteStep /\ req.intent_token.kind = "jwt"
        /\ req.intent_token.exp < now)
       => (/\ resp'.status = 403
           /\ resp'.why = "jwt"
           /\ ~resp'.ran
           /\ USED_TOKENS' = USED_TOKENS)]_vars

\* an expired token, well signed, never used, presented for a bound entry
C7_Witness ==
    /\ JwtAnswered
    /\ req.intent_token.sig = ARMORIQ_SECRET
    /\ req.intent_token.exp < resp.at
    /\ req.intent_token.jti \in JTIs \ USED_TOKENS
    /\ WellBound
    /\ resp.status = 403

(* C8: a token whose signature does not verify is rejected for every       *)
(* action; its presentation adds nothing to USED_TOKENS and runs no        *)
(* handler.                                                                *)
C8_BadSignatureRejected ==
    [][(ExecuteStep /\ req.intent_token.kind = "jwt"
        /\ req.intent_token.sig # ARMORIQ_SECRET)
       => (/\ resp'.status = 403
           /\ ~resp'.ran
           /\ USED_TOKENS' = USED_TOKENS
           /\ services' = services
           /\ audit_log' = audit_log)]_vars

\* an unexpired, never used token signed with another secret, presented
\* for a bound entry by its subject
C8_Witness ==
    /\ JwtAnswered
    /\ req.intent_token.sig # ARMORIQ_SECRET
    /\ req.intent_token.exp >= resp.at
    /\ req.intent_token.jti \in JTIs \ USED_TOKENS
    /\ WellBound
    /\ resp.status = 403

(* C2: the token obtained by capture_plan(P) followed by get_intent_token  *)
(* is accepted for P: presented by its subject for a step of P, it passes  *)
(* validation and the step's handler is dispatched.                        *)
C2_FreshTokenAccepted ==
    gw_pc = "returned"
    => /\ intent_token.kind = "jwt"
       /\ \A i \in 1..Len(plan.steps) :
            /\ verify_armoriq_token(intent_token, plan.steps[i].action,
                                    plan.steps[i].params, intent_token.sub,
                                    USED_TOKENS, now).ok
            /\ get_tool(plan.steps[i].action) # None

(* C3: the bound action list built for a token equals the captured plan's  *)
(* steps: same length, same order, same action and parameters per step.    *)
C3_BoundActionsArePlanSteps ==
    /\ gw_pc \in {"bound", "returned"} => allowed_actions = plan.steps
    /\ intent_token.kind = "jwt" => intent_token.actions = plan.steps

----------------------------------------------------------------------------
(* Calls of allow, as seen from outside *)

JuniorOnly(actor) ==
    /\ "junior" \in ActorRoles(actor)
    /\ "admin" \notin ActorRoles(actor)
    /\ "superadmin" \notin ActorRoles(actor)

\* allow answered a junior's restart request that names a service and
\* carries no foreign agent_id
JuniorRestartAnswered ==
    /\ req.op = "allow"
    /\ resp # NoCall
    /\ req.action = "infra.restart"
    /\ JuniorOnly(req.actor)
    /\ "service_id" \in DOMAIN req.params
    /\ "agent_id" \in DOMAIN req.params
       => req.params["agent_id"] = ActorUsername(req.actor)

\* every consume so far for the actor and service of the call
ConsumesOfCall ==
    HistoryGet(consumeLog,
               <<ActorUsername(req.actor), req.params["service_id"]>>)

(* C9: for a junior actor and a service, every allow evaluated less than   *)
(* 3600 seconds after a consume for them is denied; with no consume yet,   *)
(* allow is permitted.                                                     *)
C9_JuniorRateLimit ==
    JuniorRestartAnswered
    => /\ (\E i \in 1..Len(ConsumesOfCall) :
              resp.at - ConsumesOfCall[i] < 3600) => ~resp.ok
       /\ ConsumesOfCall = <<>> => resp.ok

\* denied one second before the window of the latest consume ends
C9_Witness ==
    /\ JuniorRestartAnswered
    /\ ConsumesOfCall # <<>>
    /\ resp.at - ConsumesOfCall[Len(ConsumesOfCall)] = 3599
    /\ ~resp.ok
    /\ resp.why = "limit"

(* C10: once 3600 seconds or more have passed since the latest consume for *)
(* a junior actor and a service, allow is permitted again, however many    *)
(* older consumes there were.                                              *)
C10_WindowReopens ==
    (/\ JuniorRestartAnswered
     /\ ConsumesOfCall # <<>>
     /\ resp.at - ConsumesOfCall[Len(ConsumesOfCall)] >= 3600)
    => resp.ok

\* permitted exactly 3600 seconds after the second of two consumes
C10_Witness ==
    /\ JuniorRestartAnswered
    /\ Len(ConsumesOfCall) >= 2
    /\ resp.at - ConsumesOfCall[Len(ConsumesOfCall)] = 3600
    /\ resp.ok

----------------------------------------------------------------------------
\* allow answered a call
AllowAnswered == req.op = "allow" /\ resp # NoCall

\* a step of allow_call, a step of consume_call
AllowStep == req.op = "allow" /\ resp = NoCall /\ resp' # NoCall

ConsumeStep == req.op = "consume" /\ resp = NoCall /\ resp' # NoCall

AllowCalls == {c \in PolicyCalls : c.op = "allow"}

\* the decision allow would take for call c on the store hist at time t
Decision(c, hist, t) == allow(c.actor, c.action, c.params, hist, t).ok

CallKey(c) == <<ActorUsername(c.actor), Get(c.params, "service_id")>>

C12_AdminUnconditional ==
    (/\ AllowAnswered
     /\ ("admin" \in ActorRoles(req.actor)
         \/ "superadmin" \in ActorRoles(req.actor))
     /\ "agent_id" \in DOMAIN req.params
        => req.params["agent_id"] = ActorUsername(req.actor))
    => (resp.ok /\ resp.why = "admin")

\* an admin who is also a junior restarts a service again inside the window
\* of two recorded restarts of it
C12_Witness ==
    /\ AllowAnswered
    /\ req.actor = A_boss
    /\ req.action = "infra.restart"
    /\ "service_id" \in DOMAIN req.params
    /\ Len(HistoryGet(RESTART_HISTORY, CallKey(req))) = 2
    /\ resp.at - RESTART_HISTORY[CallKey(req)][2] < 3600
    /\ resp.ok

(* C13, as stated: a call of allow leaves the whole history store          *)
(* unchanged.                                                              *)
C13_AllowLeavesStoreUnchanged ==
    [][AllowStep => RESTART_HISTORY' = RESTART_HISTORY]_vars

(* C13, amended: allow never records a consumption: the only change it     *)
(* makes to the store is to replace the list of its own (actor, service)   *)
(* key by that list without the entries 3600 seconds old or older          *)
(* (creating an empty list for a new key); no decision at that time is     *)
(* changed by it, so repeated calls return the same decision.              *)
C13_AllowCommitsNoQuota ==
    [][AllowStep =>
        /\ consumeLog' = consumeLog
        /\ DOMAIN RESTART_HISTORY' \subseteq
              DOMAIN RESTART_HISTORY \cup {CallKey(req)}
        /\ \A k \in DOMAIN RESTART_HISTORY' :
              RESTART_HISTORY'[k] \in
                 {HistoryGet(RESTART_HISTORY, k),
                  SelectSeq(HistoryGet(RESTART_HISTORY, k),
                            LAMBDA e : now - e < 3600)}
        /\ \A c \in AllowCalls :
              Decision(c, RESTART_HISTORY', now)
                 = Decision(c, RESTART_HISTORY, now)]_vars

\* a permitted allow after which the store holds an empty list where a
\* consumed restart was recorded
C13_Witness ==
    /\ JuniorRestartAnswered
    /\ resp.ok
    /\ ConsumesOfCall # <<>>
    /\ CallKey(req) \in DOMAIN RESTART_HISTORY
    /\ RESTART_HISTORY[CallKey(req)] = <<>>

(* C14: a consume for (actor A, service X) changes no history entry other  *)
(* than (A, X), and so changes no allow decision for another actor or      *)
(* another service.                                                        *)
C14_PerKeyIndependence ==
    [][ConsumeStep =>
        /\ \A k \in (DOMAIN RESTART_HISTORY \cup DOMAIN RESTART_HISTORY')
                       \ {CallKey(req)} :
              /\ k \in DOMAIN RESTART_HISTORY
              /\ k \in DOMAIN RESTART_HISTORY'
              /\ RESTART_HISTORY'[k] = RESTART_HISTORY[k]
        /\ \A c \in AllowCalls :
              CallKey(c) # CallKey(req)
              => Decision(c, RESTART_HISTORY', now)
                    = Decision(c, RESTART_HISTORY, now)]_vars

\* bob's restart of auth is recorded while his restart of db is on record:
\* both lists are kept apart
C14_Witness ==
    /\ req.op = "consume"
    /\ resp # NoCall
    /\ req.actor = A_bob
    /\ req.action = "infra.restart"
    /\ CallKey(req) = <<"bob", "auth">>
    /\ <<"bob", "db">> \in DOMAIN RESTART_HISTORY
    /\ Len(RESTART_HISTORY[<<"bob", "db">>]) = 1
    /\ Len(RESTART_HISTORY[<<"bob", "auth">>]) = 1

----------------------------------------------------------------------------
\* a step of restart_call
RestartStep == req.op = "restart" /\ resp = NoCall /\ resp' # NoCall

RestartAnswered == req.op = "restart" /\ resp # NoCall

(* C15: a restart request that is denied (identity mismatch or policy      *)
(* denial) or that names a service that does not exist records no          *)
(* consumption: every (actor, service) history reads as before, and allow  *)
(* for the same actor and service decides as it did before the request.    *)
C15_QuotaOnlyAfterSuccess ==
    [][(RestartStep /\ resp'.status # 200) =>
        /\ consumeLog' = consumeLog
        /\ \A k \in DOMAIN RESTART_HISTORY \cup DOMAIN RESTART_HISTORY' :
              HistoryGet(RESTART_HISTORY', k) = HistoryGet(RESTART_HISTORY, k)
        /\ LET c == [actor |-> req.current_user, action |-> "infra.restart",
                     params |-> [k \in {"service_id"} |-> req.service_id]]
           IN  Decision(c, RESTART_HISTORY', now)
                  = Decision(c, RESTART_HISTORY, now)]_vars

\* a junior with a restart on record asks for a service that does not
\* exist: policy permits, the lookup fails, nothing is recorded
C15_Witness ==
    /\ RestartAnswered
    /\ req.current_user = A_bob
    /\ req.service_id = "ghost"
    /\ resp.status = 404
    /\ HistoryGet(RESTART_HISTORY, <<"bob", "ghost">>) = <<>>
    /\ HistoryGet(consumeLog, <<"bob", "auth">>) # <<>>
    /\ HistoryGet(consumeLog, <<"bob", "ghost">>) = <<>>

----------------------------------------------------------------------------
\* The request in flight passes every check of the token: signature,
\* expiry, an id not presented before, the caller and a bound entry for
\* the tool name and the parameters
PassesValidation ==
    LET tok == req.intent_token IN
    /\ tok.kind = "jwt"
    /\ tok.sig = ARMORIQ_SECRET
    /\ tok.exp >= now
    /\ tok.jti \notin {None, ""}
    /\ tok.jti \notin USED_TOKENS
    /\ req.user_email \in {None, "", tok.sub}
    /\ \E i \in 1..Len(tok.actions) :
          /\ tok.actions[i].action = req.tool_name
          /\ \A k \in DOMAIN tok.actions[i].params :
                tok.actions[i].params[k] =
                   (IF k \in DOMAIN req.parameters
                    THEN req.parameters[k] ELSE None)

(* C16: a tool handler is invoked by execute_tool only in a request whose  *)
(* token passed validation for that tool name and those parameters; a      *)
(* request whose token fails validation reaches no handler and leaves the  *)
(* services and the audit log as they were.                                *)
C16_NoExecutionWithoutValidToken ==
    [][ExecuteStep =>
        /\ resp'.ran => PassesValidation
        /\ ~PassesValidation =>
              /\ ~resp'.ran
              /\ services' = services
              /\ audit_log' = audit_log]_vars

\* the restart handler ran for a request whose token binds it
C16_Witness ==
    /\ JwtAnswered
    /\ req.tool_name = "infra.restart"
    /\ resp.ran
    /\ resp.status = 200
    /\ Len(audit_log) > 0

(* C17: after the token validated, execute_tool dispatches a handler only  *)
(* if the policy engine's allow permits (caller, action, parameters).      *)
C17_NoDispatchWithoutPolicy ==
    (Answered /\ resp.ran)
    => allow(ActorStr(req.user_email), req.tool_name, req.parameters,
             RESTART_HISTORY, resp.at).ok

(* C18: after a junior caller's infra.restart of a service succeeded        *)
(* through execute_tool, the consumption is recorded: allow for (caller,    *)
(* infra.restart, service) is denied inside the window.                     *)
C18_GatewayConsumesQuota ==
    (/\ Answered
     /\ req.tool_name = "infra.restart"
     /\ resp.ran
     /\ resp.status = 200
     /\ Truthy(req.user_email))
    => ~allow(ActorDict(req.user_email, {"junior"}), "infra.restart",
              [k \in {"service_id"} |-> req.parameters["service_id"]],
              RESTART_HISTORY, resp.at).ok

----------------------------------------------------------------------------
\* the results of the steps of the running plan that passed validation
PassedSteps == {i \in 1..Len(results) : results[i].why = "ok"}

(* C19: once a step of a plan failed, no later step of that plan is        *)
(* attempted: whenever a step is being invoked, every step before it       *)
(* succeeded.                                                              *)
C19_AbortOnFirstFailure ==
    (runner # "none" /\ req.op = "execute")
    => \A i \in 1..Len(results) : results[i].status = "success"

(* C20: within one plan execution with one token signed for the plan's     *)
(* steps, at most one step passes validation, and every step presented     *)
(* after the first is rejected and runs no handler, as a replay as long as *)
(* the token has not expired, also when the step is bound in the token.    *)
C20_SingleUseAcrossPlan ==
    (/\ runner # "none"
     /\ intent_token.kind = "jwt"
     /\ intent_token.sig = ARMORIQ_SECRET)
    => /\ Cardinality(PassedSteps) <= 1
       /\ \A i \in 2..Len(results) :
             /\ results[i].http = 403
             /\ results[i].status = "failed"
             /\ intent_token.exp >= results[i].at
                => results[i].why = "reuse"
       /\ (req.op = "execute" /\ resp # NoCall /\ Len(results) >= 1)
          => (resp.status = 403 /\ ~resp.ran)

\* the first step of a two-step plan ran its handler and the second step,
\* bound in the same token, was rejected as a replay
C20_Witness ==
    /\ runner # "none"
    /\ intent_token.kind = "jwt"
    /\ Len(plan.steps) = 2
    /\ intent_token.actions = plan.steps
    /\ Len(results) = 2
    /\ results[1].status = "success"
    /\ results[2].http = 403
    /\ results[2].why = "reuse"

----------------------------------------------------------------------------
(* C21: if capturing the plan or minting the token fails, the cycle ends   *)
(* with the status "blocked" and no step of the plan is invoked: nothing   *)
(* is sent to the MCP server and no step result is recorded.               *)
C21_DeniedIsTerminal ==
    [][(runner # "none" /\ intent_token.kind = "raised")
       => /\ run_status = "blocked"
          /\ results = <<>>
          /\ req = NoCall
          /\ req' = NoCall
          /\ results' = <<>>
          /\ run_status' \in {"blocked", "none"}
          /\ USED_TOKENS' = USED_TOKENS
          /\ services' = services
          /\ audit_log' = audit_log]_vars

\* run_agent got an exception for a plan of two steps and returned
\* "blocked"
C21_Witness ==
    /\ runner = "run_agent"
    /\ intent_token.kind = "raised"
    /\ Len(plan.steps) = 2
    /\ run_status = "blocked"
    /\ results = <<>>

(* C24: no operation removes a token id from USED_TOKENS: an id that is in *)
(* the set is in it in every later state.                                  *)
C24_UsedTokensMonotone ==
    [][USED_TOKENS \subseteq USED_TOKENS']_vars

\* both ids are in the set after a replay of one of them was rejected
C24_Witness ==
    /\ JwtAnswered
    /\ resp.status = 403
    /\ resp.why = "reuse"
    /\ req.intent_token.jti \in USED_TOKENS
    /\ Cardinality(USED_TOKENS) = 2

----------------------------------------------------------------------------
\* tool_func(**parameters) cannot bind the parameters to the handler's
\* arguments
BadArguments ==
    DOMAIN req.parameters #
       (IF req.tool_name = "infra.restart"
        THEN {"service_id", "user_email"} ELSE {})

\* the restart handler is called for a service that does not exist
UnknownService ==
    /\ req.tool_name = "infra.restart"
    /\ ~BadArguments
    /\ req.parameters["service_id"] \notin {"auth", "payments", "db"}

(* C29: when the handler of a validated request raises, execute_tool       *)
(* answers that request with an error (400 for a domain error, 500 for any *)
(* other exception) and the server keeps serving: after such failures a    *)
(* valid request with good parameters is executed as usual.                *)
C29_ExecutorFailureRecoverable ==
    [][(ExecuteStep /\ PassesValidation) =>
        /\ UnknownService => (resp'.status = 400 /\ resp'.detail # "")
        /\ BadArguments => (resp'.status = 500 /\ resp'.detail # "")
        /\ (failed # {} /\ ~UnknownService /\ ~BadArguments)
           => (resp'.status = 200 /\ resp'.ran)]_vars

\* a restart succeeds after the handler raised in earlier requests, a
\* ValueError among them
C29_Witness ==
    /\ JwtAnswered
    /\ req.tool_name = "infra.restart"
    /\ resp.status = 200
    /\ failed # {}
    /\ req.intent_token.jti \notin failed
    /\ Len(audit_log) = 1

----------------------------------------------------------------------------
\* allow returned a denial
AllowDenied == AllowAnswered /\ ~resp.raised /\ ~resp.ok

\* the caller of allow has neither the admin nor the superadmin role
NonAdminCall ==
    /\ req.op = "allow"
    /\ "admin" \notin ActorRoles(req.actor)
    /\ "superadmin" \notin ActorRoles(req.actor)

C26_AllowNeverThrows ==
    AllowAnswered => ~resp.raised

(* C27: allow permits a caller with neither admin nor superadmin role only *)
(* in four cases: infra.restart with a service_id by a junior under the    *)
(* limit, alert.create, an action of the data family, and an action of the *)
(* user family by a role of the allow-list (junior).  Everything else,     *)
(* infra.restart by a non-junior and unknown actions included, is denied.  *)
C27_DefaultDeny ==
    (AllowAnswered /\ NonAdminCall /\ resp.ok) =>
        LET roles == ActorRoles(req.actor)
            p == IF req.params = ParamsNone THEN EmptyDict ELSE req.params
            key == <<ActorUsername(req.actor), Get(p, "service_id")>>
        IN  \/ /\ req.action = "infra.restart"
               /\ "junior" \in roles
               /\ "service_id" \in DOMAIN p
               /\ Len(Prune(HistoryGet(RESTART_HISTORY, key), resp.at))
                    < JUNIOR_LIMIT
            \/ req.action = "alert.create"
            \/ req.action = "data.read"
            \/ req.action = "user.change_role" /\ "junior" \in roles

\* infra.restart with a service_id, asked by a readonly user, was denied by
\* the default rule
C27_Witness ==
    /\ AllowDenied
    /\ req.actor = A_carol
    /\ req.action = "infra.restart"
    /\ req.params = [k \in {"service_id"} |-> "auth"]
    /\ resp.why = "denied"

(* C28: allow never permits user.change_role to a caller with neither the  *)
(* admin nor the superadmin role.                                          *)
C28_NoEscalation ==
    (AllowAnswered /\ NonAdminCall /\ req.action = "user.change_role")
        => ~resp.ok

----------------------------------------------------------------------------
(* C22: also when requests run at the same time, at most one request       *)
(* presenting a given token passes the replay check and reaches a handler. *)
C22_AcceptedOnceUnderConcurrency ==
    \A j \in JTIs : passCount[j] <= 1

(* C23: when no consume call is running, the stored history of every key   *)
(* holds every timestamp consumed for that key within the window: no       *)
(* update is lost, however the calls overlapped.                           *)
C23_NoLostUpdate ==
    Busy = {} =>
        \A key \in DOMAIN consumeLog :
            Len(Prune(consumeLog[key], now))
                <= Len(HistoryGet(RESTART_HISTORY, key))

----------------------------------------------------------------------------
(* C31: registering a name that is already registered fails with a         *)
(* duplicate-action error and leaves the handler and the definition stored *)
(* under that name as they were.                                           *)
C31_DuplicateRegistrationFails ==
    [][(req = NoCall /\ req'.op = "register" /\ req'.name \in DOMAIN tools)
       => /\ resp'.error = "DuplicateAction"
          /\ tools' = tools
          /\ definitions' = definitions]_vars

----------------------------------------------------------------------------
\* the loop appends the result of the step it invoked
StepRecorded ==
    /\ req.op = "execute"
    /\ runner # "none"
    /\ Len(results') = Len(results) + 1

----------------------------------------------------------------------------
(* C33: an execute request with an empty intent token is answered 401      *)
(* before the token is validated: nothing is added to USED_TOKENS and no   *)
(* handler runs.                                                           *)
C33_EmptyTokenUnauthenticated ==
    [][(ExecuteStep /\ req.intent_token.kind = "empty")
       => /\ resp'.status = 401
          /\ resp'.detail = "Missing ArmorIQ Intent Token"
          /\ ~resp'.ran
          /\ USED_TOKENS' = USED_TOKENS
          /\ services' = services
          /\ audit_log' = audit_log]_vars

\* an empty token was answered 401 after another request had burnt a token
C33_Witness ==
    /\ Answered
    /\ req.intent_token.kind = "empty"
    /\ resp.status = 401
    /\ USED_TOKENS # {}

(* C34: a request without caller identity (the header absent or empty) is  *)
(* never rejected for its subject: its outcome, and what it adds to        *)
(* USED_TOKENS, are those of the same request sent by the token's subject. *)
C34_SubjectCheckOnlyWhenSupplied ==
    [][(ExecuteStep /\ req.intent_token.kind = "jwt"
        /\ req.user_email \in {None, ""})
       => LET tok == req.intent_token
              bySubject == verify_armoriq_token(tok, req.tool_name,
                                                req.parameters, tok.sub,
                                                USED_TOKENS, now)
          IN  /\ resp'.why # "user"
              /\ (resp'.why = "ok") = bySubject.ok
              /\ resp'.status # 403 => bySubject.ok
              /\ USED_TOKENS' = bySubject.used]_vars

\* a request with an empty identity header and a token of admin_agent ran
\* the restart
C34_Witness ==
    /\ JwtAnswered
    /\ req.user_email = ""
    /\ req.intent_token.sub = "admin_agent"
    /\ resp.status = 200
    /\ resp.ran

----------------------------------------------------------------------------
(* C35: for a junior and a service, any two restarts that succeeded are at *)
(* least 3600 seconds apart, also when the requests are processed at the   *)
(* same time.                                                              *)
C35_JuniorLimitUnderConcurrency ==
    \A key \in DOMAIN consumeLog :
        \A i, j \in 1..Len(consumeLog[key]) :
            i < j => consumeLog[key][j] - consumeLog[key][i] >= RATE_WINDOW

----------------------------------------------------------------------------
(* C36: the status execute_cycle returns is "success" only if none of the  *)
(* steps it attempted failed.                                              *)
C36_StatusReflectsStepFailures ==
    (runner = "execute_cycle" /\ run_status = "success")
        => \A i \in 1..Len(results) : results[i].status # "failed"

\* the loop of execute_cycle sends the request of a step
InvokeStep ==
    /\ runner = "execute_cycle"
    /\ req = NoCall
    /\ req'.op = "execute"

(* C37: execute_cycle invokes the steps of the plan in order, each at most *)
(* once: the step it invokes is the one after all recorded results, so it  *)
(* makes at most as many invocations as the plan has steps.  A step whose  *)
(* invocation fails is recorded as failed and the function returns its     *)
(* result.  A running cycle always comes to its return.                    *)
C37_CycleTerminates ==
    /\ [][/\ InvokeStep
             => /\ step_no = Len(results) + 1
                /\ step_no <= Len(plan.steps)
                /\ req'.tool_name = plan.steps[step_no].action
          /\ (StepRecorded /\ runner = "execute_cycle" /\ resp.status # 200)
             => /\ results'[Len(results')].status = "failed"
                /\ run_status' = "success"
                /\ Len(results') <= Len(plan.steps)]_vars
    /\ (runner = "execute_cycle" /\ run_status = "running")
          ~> (runner = "execute_cycle" /\ run_status = "success")

\* the first of two steps failed, it was recorded, and the cycle returned
\* without invoking the second
C37_Witness ==
    /\ runner = "execute_cycle"
    /\ Len(plan.steps) = 2
    /\ Len(results) = 1
    /\ results[1].status = "failed"
    /\ run_status = "success"
    /\ req = NoCall

----------------------------------------------------------------------------
(* C38: alert.resolve succeeds at most once for an alert, also when calls  *)
(* for it run at the same time: an alert is never un-resolved, a resolve   *)
(* of an alert that a call has resolved fails with a domain error, and     *)
(* resolved_by and resolution_note stay those of the one call that         *)
(* succeeded.                                                              *)
C38_ResolvedAtMostOnce ==
    \A a \in AlertIds :
        /\ Len(resolves[a]) <= 1
        /\ resolves[a] # <<>>
           => /\ alerts[a].resolved
              /\ alerts[a].resolved_by = resolves[a][1]

====
